---- MODULE Spec2Model ----
(* A model of the JSON-RPC client of src/jrpc2/client.go: the Client struct,  *)
(* NewClient, SetTimeout, StartUp (Writer Loop + Reader Loop), Shutdown,      *)
(* processResponse / sendResponse (one task per inbound chunk) and Request.   *)
(* Every goroutine is a process of the model; every statement that touches    *)
(* shared state (the struct's fields, a channel, the output stream) is one    *)
(* step.  The word-sized fields of the struct are read and written          *)
(* atomically; the two places where unsynchronised access has outcomes of     *)
(* its own are modelled as such: the registry map, on which the Go runtime    *)
(* raises a fatal error when it meets a concurrent write, and the scanner's   *)
(* buffer, whose bytes a later Scan may overwrite under a task that has not   *)
(* parsed them yet.  A panic or fatal error ends the whole process.           *)
EXTENDS Integers, Sequences, FiniteSets, TLC

\* ---------------------------------------------------------------- bounds
MaxCalls == 2
MaxChunks == 2
MaxStarts == 2
MaxShutdowns == 1
SetSecs == 1
\* A number of seconds whose Duration does not fit the width of a Duration.
LongSecs == 33
\* What the environment does in one run: its calls of the API and the chunks
\* it puts on the input stream.
MaxEnv == 4

\* ------------------------------------------------------ program constants
\* time.Duration is a signed 64-bit count of nanoseconds.  Here a Duration is
\* a signed 16-bit count of milliseconds: the same arithmetic at a width the
\* integers of the model can hold.  time.Second is 1000 and the longest
\* Duration is a little over 32 seconds (in Go: a little over 9223372036
\* seconds).  The clock of the model advances in seconds.
DefaultTimeout == 20
Second == 1000
DurationBits == 16
ReplyCap == 1
Newline == 0

Calls == 1..MaxCalls
Tasks == 1..MaxChunks
Starts == 1..MaxStarts

\* The chunks the counterparty can put on the input stream: a reply to id
\* i (what it carries, a result or an error, is read by handleReply alone),
\* a reply whose id is missing or empty, bytes that do not parse, and the
\* JSON literal null, which parses and leaves the *RawResponse nil.
NoId == 0
Garbage == -1
Null == -2
Chunks == (1..MaxCalls) \cup {NoId, Garbage, Null}
\* What a reply carries: a result that decodes into the caller's target, a
\* result that does not, or a protocol error.
Payloads == {"result", "mistyped", "error"}

VARIABLES
    shutdown,        \* c.shutdown
    timeout,         \* c.timeout, as stored by NewClient / SetTimeout
    requestCounter,  \* c.requestCounter
    requestQueue,    \* c.requestQueue: the channel the field points to
    closedQ,         \* the request channels that have been closed
    pendingReq,      \* c.pendingReq: id -> reply channel (named by its call)
    replyBuf,        \* the buffer of each call's reply channel
    replyClosed,     \* the reply channels that have been closed
    pc, id, sendCh, waited, outcome, gotId,   \* each Request call
    stPc,            \* each StartUp call (it runs the Reader Loop itself)
    wPc, wCh, wReq,  \* the Writer Loop each StartUp launched
    tPc, tMsg, tCh,  \* the processResponse task of each chunk read
    tBy,             \* the StartUp call whose Reader Loop launched the task
    nTasks,          \* chunks read so far
    sdPc, sdVisited, sdFresh, sdCount,   \* the Shutdown call
    wire,            \* the bytes written to the output stream
    panic,           \* "none", or the panic that ended the process
    before,          \* history: the ids enqueued when each call began its enqueue
    startsAtSd,      \* history: StartUp calls made when Shutdown was called
    ranAt,           \* history: the calls that passed the check after a StartUp
    dropped          \* history: the ids whose envelope failed to encode

callVars == <<pc, id, sendCh, waited, outcome, gotId>>
chanVars == <<replyBuf, replyClosed>>
loopVars == <<stPc, wPc, wCh, wReq>>
taskVars == <<tPc, tMsg, tCh, tBy, nTasks>>
sdVars == <<sdPc, sdVisited, sdFresh, sdCount, startsAtSd>>
histVars == <<before, ranAt, dropped>>
vars == <<shutdown, timeout, requestCounter, requestQueue, closedQ, pendingReq,
          callVars, chanVars, loopVars, taskVars, sdVars, wire, panic, histVars>>

\* ------------------------------------------------------------- NewClient
Init ==
    /\ shutdown = FALSE
    /\ timeout = DefaultTimeout
    /\ requestCounter = 0
    /\ requestQueue = 0
    /\ closedQ = {}
    /\ pendingReq = << >>
    /\ replyBuf = [c \in Calls |-> << >>]
    /\ replyClosed = {}
    /\ pc = [c \in Calls |-> "idle"]
    /\ id = [c \in Calls |-> 0]
    /\ sendCh = [c \in Calls |-> 0]
    /\ waited = [c \in Calls |-> 0]
    /\ outcome = [c \in Calls |-> "none"]
    /\ gotId = [c \in Calls |-> 0]
    /\ stPc = [s \in Starts |-> "idle"]
    /\ wPc = [s \in Starts |-> "none"]
    /\ wCh = [s \in Starts |-> 0]
    /\ wReq = [s \in Starts |-> 0]
    /\ tPc = [t \in Tasks |-> "none"]
    /\ tMsg = [t \in Tasks |-> NoId]
    /\ tCh = [t \in Tasks |-> 0]
    /\ tBy = [t \in Tasks |-> 0]
    /\ nTasks = 0
    /\ sdPc = "idle"
    /\ sdVisited = {}
    /\ sdFresh = {}
    /\ sdCount = 0
    /\ wire = << >>
    /\ panic = "none"
    /\ before = [c \in Calls |-> {}]
    /\ startsAtSd = 0
    /\ ranAt = {}
    /\ dropped = {}

\* ------------------------------------------------------------- helpers
Crashed == panic # "none"
MapPutOnly(m, k, v) == [x \in {k} |-> v]
MapPutSkipped(m, k, v) == m
MapPut(m, k, v) == [x \in (DOMAIN m) \cup {k} |-> IF x = k THEN v ELSE m[x]]
MapDelete(m, k) == [x \in (DOMAIN m) \ {k} |-> m[x]]
StartsMade == Cardinality({s \in Starts : stPc[s] # "idle"})
\* The environment's events so far.
EnvUsed ==
    Cardinality({c \in Calls : pc[c] # "idle"}) + StartsMade + nTasks + sdCount
      + (IF sdPc # "idle" THEN 1 ELSE 0)
      + (IF timeout # DefaultTimeout THEN 1 ELSE 0)
      + Cardinality({s \in Starts : stPc[s] = "eof"})
\* The ids whose send on the request channel has completed.
EnqDone == {id[c] : c \in {x \in Calls : \/ pc[x] \in {"waiting", "timedout"}
                                          \/ /\ pc[x] = "done"
                                             /\ outcome[x] # "shutdown"}}

\* ------------------------------------------------------------ SetTimeout
\* (called while no Request is running)
SetTimeout(secs) ==
    /\ ~Crashed
    /\ EnvUsed < MaxEnv
    /\ \A c \in Calls : pc[c] = "idle"
    /\ timeout = DefaultTimeout
    /\ timeout' = secs
    /\ UNCHANGED <<shutdown, requestCounter, requestQueue, closedQ, pendingReq,
                   callVars, chanVars, loopVars, taskVars, sdVars, wire,
                   panic, histVars>>

\* --------------------------------------------------------------- StartUp
\* StartUp clears the flag and launches the Writer Loop; the Reader Loop then
\* runs in the calling context, so the call returns only when it ends.
StartUp(s) ==
    /\ ~Crashed
    /\ EnvUsed < MaxEnv
    /\ stPc[s] = "idle"
    /\ \A r \in 1..(s - 1) : stPc[r] # "idle"
    /\ shutdown' = FALSE
    /\ stPc' = [stPc EXCEPT ![s] = "reading"]
    /\ wPc' = [wPc EXCEPT ![s] = "start"]
    /\ UNCHANGED <<timeout, requestCounter, requestQueue, closedQ, pendingReq,
                   callVars, chanVars, wCh, wReq, taskVars, sdVars, wire,
                   panic, histVars>>

\* ---------------------------------------------------------- Writer Loop
\* `for request := range c.requestQueue` reads the field once.
WriterRange(s) ==
    /\ ~Crashed
    /\ wPc[s] = "start"
    /\ wCh' = [wCh EXCEPT ![s] = requestQueue]
    /\ wPc' = [wPc EXCEPT ![s] = "recv"]
    /\ UNCHANGED <<shutdown, timeout, requestCounter, requestQueue, closedQ,
                   pendingReq, callVars, chanVars, stPc, wReq, taskVars,
                   sdVars, wire, panic, histVars>>

\* The channel is unbuffered: the receive and Request's send are one step.
\* The sender goes on to its select, which starts the timer.
WriterRecv(s, c) ==
    /\ ~Crashed
    /\ wPc[s] = "recv"
    /\ pc[c] = "sending"
    /\ sendCh[c] = wCh[s]
    /\ wCh[s] \notin closedQ
    /\ sendCh' = [sendCh EXCEPT ![c] = 0]
    /\ wReq' = [wReq EXCEPT ![s] = id[c]]
    /\ wPc' = [wPc EXCEPT ![s] = "write"]
    /\ pc' = [pc EXCEPT ![c] = "waiting"]
    /\ UNCHANGED <<shutdown, timeout, requestCounter, requestQueue, closedQ,
                   pendingReq, id, waited, outcome, gotId, chanVars,
                   stPc, wCh, taskVars, sdVars, wire, panic, histVars>>

\* json.Marshal (ok: whether it succeeds on this request's method), the
\* delimiter, Write and Flush: one write of the stream.  On an error of
\* Marshal the loop logs it and continues with the next request.
Encode(req) == <<req, Newline, Newline>>
WrittenAnyway(w, req, ok) == w \o Encode(req)
Written(w, req, ok) == IF ok THEN w \o Encode(req) ELSE w

WriterWrite(s, ok) ==
    /\ ~Crashed
    /\ wPc[s] = "write"
    /\ wire' = Written(wire, wReq[s], ok)
    /\ dropped' = IF ok THEN dropped ELSE dropped \cup {wReq[s]}
    /\ wReq' = [wReq EXCEPT ![s] = 0]
    /\ wPc' = [wPc EXCEPT ![s] = "recv"]
    /\ UNCHANGED <<shutdown, timeout, requestCounter, requestQueue, closedQ,
                   pendingReq, callVars, chanVars, stPc, wCh, taskVars,
                   sdVars, panic, before, ranAt>>

\* The range ends when the channel it ranges over is closed.
WriterExit(s) ==
    /\ ~Crashed
    /\ wPc[s] = "recv"
    /\ wCh[s] \in closedQ
    /\ wPc' = [wPc EXCEPT ![s] = "exited"]
    /\ UNCHANGED <<shutdown, timeout, requestCounter, requestQueue, closedQ,
                   pendingReq, callVars, chanVars, stPc, wCh, wReq, taskVars,
                   sdVars, wire, panic, histVars>>

\* ---------------------------------------------------------- Reader Loop
\* scanner.Scan() returns a chunk (then the flag is tested) or the stream
\* has ended.  msg := scanner.Bytes() is a slice of the scanner's buffer,
\* which this Scan may have overwritten: a task of the same Reader Loop that
\* has not parsed its chunk yet finds its own bytes, the bytes of the new
\* chunk, or a mixture that does not parse.
Overwrites == {"kept", "next", "torn"}
Overwritten(old, m, o) ==
    IF o = "kept" THEN old ELSE IF o = "next" THEN m ELSE Garbage
\* `go processResponse(c, msg)`: the task runs on a goroutine of its own, so
\* the loop waits for none of the tasks it launched before its next Scan.
ReaderWaitsForAll(s) ==
    {t \in Tasks : tBy[t] = s /\ tPc[t] \in {"parse", "send", "delete"}}
ReaderWaitsFor(s) == {}

ReaderChunk(s, m) ==
    /\ ~Crashed
    /\ EnvUsed < MaxEnv
    /\ stPc[s] = "reading"
    /\ ReaderWaitsFor(s) = {}
    /\ nTasks < MaxChunks
    /\ nTasks' = nTasks + 1
    /\ \E o \in Overwrites :
         tMsg' = [t \in Tasks |->
                    IF t = nTasks + 1 /\ ~shutdown THEN m
                    ELSE IF tPc[t] = "parse" /\ tBy[t] = s
                           THEN Overwritten(tMsg[t], m, o)
                           ELSE tMsg[t]]
    /\ IF shutdown
         THEN /\ stPc' = [stPc EXCEPT ![s] = "stopped"]
              /\ UNCHANGED <<tPc, tBy>>
         ELSE /\ tPc' = [tPc EXCEPT ![nTasks + 1] = "parse"]
              /\ tBy' = [tBy EXCEPT ![nTasks + 1] = s]
              /\ UNCHANGED stPc
    /\ UNCHANGED <<shutdown, timeout, requestCounter, requestQueue, closedQ,
                   pendingReq, callVars, chanVars, wPc, wCh, wReq, tCh,
                   sdVars, wire, panic, histVars>>

ReaderEOF(s) ==
    /\ ~Crashed
    /\ EnvUsed < MaxEnv
    /\ stPc[s] = "reading"
    /\ stPc' = [stPc EXCEPT ![s] = "eof"]
    /\ UNCHANGED <<shutdown, timeout, requestCounter, requestQueue, closedQ,
                   pendingReq, callVars, chanVars, wPc, wCh, wReq, taskVars,
                   sdVars, wire, panic, histVars>>

\* ------------------------------------------- processResponse / sendResponse
\* json.Unmarshal fails on garbage; a reply with no id is dropped.
Parses(m) == m # Garbage
IsNull(m) == m = Null
HasId(m) == m # NoId

\* respChan, exists := c.pendingReq[id]: a missing key gives the nil channel.
Exists(i) == i \in DOMAIN pendingReq
LookupOther(i) ==
    IF \E k \in DOMAIN pendingReq : k # i
      THEN pendingReq[CHOOSE k \in DOMAIN pendingReq : k # i]
      ELSE 0
Lookup(i) == IF i \in DOMAIN pendingReq THEN pendingReq[i] ELSE 0

\* processResponse up to the lookup in sendResponse.  A task ends "invalid"
\* (the chunk was dropped), "stray" (no return channel found) or "done".
TaskLookup(t) ==
    /\ ~Crashed
    /\ tPc[t] = "parse"
    /\ ~IsNull(tMsg[t])
    /\ IF Parses(tMsg[t]) /\ HasId(tMsg[t]) /\ Exists(tMsg[t])
         THEN /\ tCh' = [tCh EXCEPT ![t] = Lookup(tMsg[t])]
              /\ tPc' = [tPc EXCEPT ![t] = "send"]
              /\ UNCHANGED tMsg
         ELSE /\ tPc' = [tPc EXCEPT ![t] =
                         IF Parses(tMsg[t]) /\ HasId(tMsg[t])
                           THEN "stray" ELSE "invalid"]
              /\ tMsg' = [tMsg EXCEPT ![t] = NoId]
              /\ UNCHANGED tCh
    /\ UNCHANGED <<shutdown, timeout, requestCounter, requestQueue, closedQ,
                   pendingReq, callVars, chanVars, loopVars, tBy, nTasks,
                   sdVars, wire, panic, histVars>>

\* json.Unmarshal(msg, &rawResp) returned no error and left rawResp nil:
\* rawResp.Id dereferences the nil pointer, and the panic of a goroutine
\* ends the process.
TaskNilDeref(t) ==
    /\ ~Crashed
    /\ tPc[t] = "parse"
    /\ IsNull(tMsg[t])
    /\ tPc' = [tPc EXCEPT ![t] = "fault"]
    /\ panic' = "processResponse: nil pointer dereference"
    /\ UNCHANGED <<shutdown, timeout, requestCounter, requestQueue, closedQ,
                   pendingReq, callVars, chanVars, loopVars, tMsg, tCh, tBy,
                   nTasks, sdVars, wire, histVars>>

\* respChan <- resp: blocks while the buffer is full (and for ever on the nil
\* channel), panics on a closed channel.
TaskSend(t) ==
    /\ ~Crashed
    /\ tPc[t] = "send"
    /\ tCh[t] \in Calls
    /\ IF tCh[t] \in replyClosed
         THEN /\ panic' = "sendResponse: send on closed channel"
              /\ UNCHANGED <<replyBuf, tPc>>
         ELSE /\ Len(replyBuf[tCh[t]]) < ReplyCap
              /\ replyBuf' = [replyBuf EXCEPT ![tCh[t]] = Append(@, tMsg[t])]
              /\ tPc' = [tPc EXCEPT ![t] = "delete"]
              /\ UNCHANGED panic
    /\ UNCHANGED <<shutdown, timeout, requestCounter, requestQueue, closedQ,
                   pendingReq, callVars, replyClosed, loopVars, tMsg, tCh,
                   tBy, nTasks, sdVars, wire, histVars>>

TaskDelete(t) ==
    /\ ~Crashed
    /\ tPc[t] = "delete"
    /\ pendingReq' = MapDelete(pendingReq, tMsg[t])
    /\ tPc' = [tPc EXCEPT ![t] = "done"]
    /\ tMsg' = [tMsg EXCEPT ![t] = NoId]
    /\ tCh' = [tCh EXCEPT ![t] = 0]
    /\ UNCHANGED <<shutdown, timeout, requestCounter, requestQueue, closedQ,
                   callVars, chanVars, loopVars, tBy, nTasks, sdVars, wire,
                   panic, histVars>>

\* --------------------------------------------------------------- Request
\* `if c.shutdown { return error }`.  The calls are numbered in the order
\* they are made.
ShutdownCheckSkipped == FALSE
ShutdownCheck == shutdown

RequestCheck(c) ==
    /\ ~Crashed
    /\ EnvUsed < MaxEnv
    /\ pc[c] = "idle"
    /\ \A r \in 1..(c - 1) : pc[r] # "idle"
    /\ IF ShutdownCheck
         THEN /\ pc' = [pc EXCEPT ![c] = "done"]
              /\ outcome' = [outcome EXCEPT ![c] = "shutdown"]
              /\ UNCHANGED ranAt
         ELSE /\ pc' = [pc EXCEPT ![c] = "checked"]
              /\ ranAt' = IF StartsMade >= 1 THEN ranAt \cup {c} ELSE ranAt
              /\ UNCHANGED outcome
    /\ UNCHANGED <<shutdown, timeout, requestCounter, requestQueue, closedQ,
                   pendingReq, id, sendCh, waited, gotId, chanVars,
                   loopVars, taskVars, sdVars, wire, panic, before, dropped>>

\* atomic.AddInt64(&c.requestCounter, 1)
NextIdStale == requestCounter
NextId ==  requestCounter + 1

RequestNextId(c) ==
    /\ ~Crashed
    /\ pc[c] = "checked"
    /\ requestCounter' = NextId
    /\ id' = [id EXCEPT ![c] = NextId]
    /\ pc' = [pc EXCEPT ![c] = "gotId"]
    /\ UNCHANGED <<shutdown, timeout, requestQueue, closedQ, pendingReq,
                   sendCh, waited, outcome, gotId, chanVars, loopVars,
                   taskVars, sdVars, wire, panic, histVars>>

\* replyChan := make(chan *RawResponse, 1); c.pendingReq[id] = replyChan
RequestRegister(c) ==
    /\ ~Crashed
    /\ pc[c] = "gotId"
    /\ pendingReq' = MapPut(pendingReq, id[c], c)
    /\ sdFresh' = IF sdPc = "range" THEN sdFresh \cup {id[c]} ELSE sdFresh
    /\ pc' = [pc EXCEPT ![c] = "registered"]
    /\ UNCHANGED <<shutdown, timeout, requestCounter, requestQueue, closedQ,
                   id, sendCh, waited, outcome, gotId, chanVars,
                   loopVars, taskVars, sdPc, sdVisited, sdCount, startsAtSd,
                   wire, panic, histVars>>

\* c.requestQueue <- req: the field is read, then the send blocks until a
\* Writer Loop receives (WriterRecv); a send on a closed channel panics.
RequestSend(c) ==
    /\ ~Crashed
    /\ pc[c] = "registered"
    /\ IF requestQueue \in closedQ
         THEN /\ panic' = "Request: send on closed channel"
              /\ UNCHANGED <<pc, sendCh, before>>
         ELSE /\ pc' = [pc EXCEPT ![c] = "sending"]
              /\ sendCh' = [sendCh EXCEPT ![c] = requestQueue]
              /\ before' = [before EXCEPT ![c] = EnqDone]
              /\ UNCHANGED panic
    /\ UNCHANGED <<ranAt, dropped>>
    /\ UNCHANGED <<shutdown, timeout, requestCounter, requestQueue, closedQ,
                   pendingReq, id, waited, outcome, gotId, chanVars,
                   loopVars, taskVars, sdVars, wire>>

\* The channel is closed under a blocked sender: the sender panics.
RequestSendPanic(c) ==
    /\ ~Crashed
    /\ pc[c] = "sending"
    /\ sendCh[c] \in closedQ
    /\ panic' = "Request: send on closed channel"
    /\ UNCHANGED <<shutdown, timeout, requestCounter, requestQueue, closedQ,
                   pendingReq, callVars, chanVars, loopVars, taskVars, sdVars,
                   wire, histVars>>

\* handleReply: nil (the channel was closed), a protocol error, or the
\* result decoded into the caller's target by json.Unmarshal.
HandleReply(isNil, payload) ==
    IF isNil THEN "pipeClosed"
    ELSE IF payload = "error" THEN "rpcError"
    ELSE IF payload = "result" THEN "ok"
    ELSE "decodeError"

ReplyReady(c) == replyBuf[c] # << >> \/ c \in replyClosed

\* case rawResp := <-replyChan: a buffered reply, or nil once closed.
RequestReply(c, payload) ==
    /\ ~Crashed
    /\ pc[c] = "waiting"
    /\ ReplyReady(c)
    /\ outcome' = [outcome EXCEPT ![c] =
                     HandleReply(replyBuf[c] = << >>, payload)]
    /\ gotId' = [gotId EXCEPT ![c] =
                   IF replyBuf[c] = << >> THEN 0 ELSE Head(replyBuf[c])]
    /\ replyBuf' = [replyBuf EXCEPT ![c] = IF @ = << >> THEN @ ELSE Tail(@)]
    /\ pc' = [pc EXCEPT ![c] = "done"]
    /\ UNCHANGED <<shutdown, timeout, requestCounter, requestQueue, closedQ,
                   pendingReq, id, sendCh, waited, replyClosed, loopVars,
                   taskVars, sdVars, wire, panic, histVars>>

\* c.timeout * time.Second: a multiplication of Durations, which wraps.
Wrap(x) ==
    ((x + 2^(DurationBits - 1)) % 2^DurationBits) - 2^(DurationBits - 1)
TimerDuration(t) == Wrap(t * Second)
\* The seconds after which time.After(d) delivers: at once if d <= 0.
After(d) == IF d > 0 THEN d \div Second ELSE 0

\* case <-time.After(c.timeout * time.Second): the timer fires once its
\* duration has elapsed (waited: the seconds the call has then waited), and
\* wakes a select that no other case has woken.
RequestTimerFire(c) ==
    /\ ~Crashed
    /\ pc[c] = "waiting"
    /\ ~ReplyReady(c)
    /\ waited' = [waited EXCEPT ![c] = After(TimerDuration(timeout))]
    /\ pc' = [pc EXCEPT ![c] = "timedout"]
    /\ UNCHANGED <<shutdown, timeout, requestCounter, requestQueue, closedQ,
                   pendingReq, id, sendCh, outcome, gotId, chanVars,
                   loopVars, taskVars, sdVars, wire, panic, histVars>>

\* delete(c.pendingReq, id.Val()); return "Request timed out"
RequestTimeout(c) ==
    /\ ~Crashed
    /\ pc[c] = "timedout"
    /\ pendingReq' = MapDelete(pendingReq, id[c])
    /\ outcome' = [outcome EXCEPT ![c] = "timeout"]
    /\ pc' = [pc EXCEPT ![c] = "done"]
    /\ UNCHANGED <<shutdown, timeout, requestCounter, requestQueue, closedQ,
                   id, sendCh, waited, gotId, chanVars, loopVars,
                   taskVars, sdVars, wire, panic, histVars>>

\* -------------------------------------------------------------- Shutdown
\* c.shutdown = true
FlagAfterShutdownLeft == shutdown
FlagAfterShutdown == TRUE

ShutdownFlag ==
    /\ ~Crashed
    /\ EnvUsed < MaxEnv
    /\ sdPc = "idle"
    /\ sdCount < MaxShutdowns
    /\ shutdown' = FlagAfterShutdown
    /\ startsAtSd' = StartsMade
    /\ sdPc' = "closeQueue"
    /\ UNCHANGED <<timeout, requestCounter, requestQueue, closedQ, pendingReq,
                   callVars, chanVars, loopVars, taskVars, sdVisited, sdFresh,
                   sdCount, wire, panic, histVars>>

\* close(c.requestQueue)
ShutdownCloseQueue ==
    /\ ~Crashed
    /\ sdPc = "closeQueue"
    /\ closedQ' = closedQ \cup {requestQueue}
    /\ sdPc' = "range"
    /\ sdVisited' = {}
    /\ sdFresh' = {}
    /\ UNCHANGED <<shutdown, timeout, requestCounter, requestQueue, pendingReq,
                   callVars, chanVars, loopVars, taskVars, sdCount, startsAtSd,
                   wire, panic, histVars>>

\* for _, v := range c.pendingReq { close(v) }: one iteration.  An entry
\* deleted before it is reached is not produced.
ShutdownCloseReply(k) ==
    /\ ~Crashed
    /\ sdPc = "range"
    /\ k \in DOMAIN pendingReq
    /\ k \notin sdVisited
    /\ IF pendingReq[k] \in replyClosed
         THEN /\ panic' = "Shutdown: close of closed channel"
              /\ UNCHANGED <<replyClosed, sdVisited>>
         ELSE /\ replyClosed' = replyClosed \cup {pendingReq[k]}
              /\ sdVisited' = sdVisited \cup {k}
              /\ UNCHANGED panic
    /\ UNCHANGED <<shutdown, timeout, requestCounter, requestQueue, closedQ,
                   pendingReq, callVars, replyBuf, loopVars, taskVars, sdPc,
                   sdFresh, sdCount, startsAtSd, wire, histVars>>

\* The range is over (an entry created during it may have been skipped);
\* c.pendingReq = make(map[string]chan *RawResponse)
NewMap == << >>

ShutdownNewMap ==
    /\ ~Crashed
    /\ sdPc = "range"
    /\ (DOMAIN pendingReq) \ sdVisited \subseteq sdFresh
    /\ pendingReq' = NewMap
    /\ sdPc' = "newQueue"
    /\ sdVisited' = {}
    /\ sdFresh' = {}
    /\ UNCHANGED <<shutdown, timeout, requestCounter, requestQueue, closedQ,
                   callVars, chanVars, loopVars, taskVars, sdCount, startsAtSd,
                   wire, panic, histVars>>

\* c.requestQueue = make(chan *Request); return
ShutdownNewQueue ==
    /\ ~Crashed
    /\ sdPc = "newQueue"
    /\ requestQueue' = requestQueue + 1
    /\ sdPc' = "idle"
    /\ sdCount' = sdCount + 1
    /\ UNCHANGED <<shutdown, timeout, requestCounter, closedQ, pendingReq,
                   callVars, chanVars, loopVars, taskVars, sdVisited, sdFresh,
                   startsAtSd, wire, panic, histVars>>

\* ------------------------------------- the registry under concurrent access
\* No lock guards c.pendingReq.  The goroutines about to write the map: a
\* Request at its registration or at its delete on timeout, a task at its
\* delete.  When a map access overlaps a write the runtime may stop the
\* process with a fatal error (it may also miss the overlap: then the
\* accesses take effect one after the other, as in the actions above).
MapWriters ==
    Cardinality({c \in Calls : pc[c] \in {"gotId", "timedout"}})
      + Cardinality({t \in Tasks : tPc[t] = "delete"})

\* respChan, exists := c.pendingReq[id] while another goroutine writes.
MapReadFault(t) ==
    /\ ~Crashed
    /\ tPc[t] = "parse"
    /\ Parses(tMsg[t]) /\ ~IsNull(tMsg[t]) /\ HasId(tMsg[t])
    /\ MapWriters >= 1
    /\ tPc' = [tPc EXCEPT ![t] = "fault"]
    /\ panic' = "fatal error: concurrent map read and map write"
    /\ UNCHANGED <<shutdown, timeout, requestCounter, requestQueue, closedQ,
                   pendingReq, callVars, chanVars, loopVars, tMsg, tCh, tBy,
                   nTasks, sdVars, wire, histVars>>

\* c.pendingReq[id] = replyChan or delete(c.pendingReq, id) while another
\* goroutine writes.
MapWriteFault ==
    /\ ~Crashed
    /\ MapWriters >= 2
    /\ panic' = "fatal error: concurrent map writes"
    /\ UNCHANGED <<shutdown, timeout, requestCounter, requestQueue, closedQ,
                   pendingReq, callVars, chanVars, loopVars, taskVars, sdVars,
                   wire, histVars>>

\* for _, v := range c.pendingReq while another goroutine writes.
MapIterFault ==
    /\ ~Crashed
    /\ sdPc = "range"
    /\ MapWriters >= 1
    /\ panic' = "fatal error: concurrent map iteration and map write"
    /\ UNCHANGED <<shutdown, timeout, requestCounter, requestQueue, closedQ,
                   pendingReq, callVars, chanVars, loopVars, taskVars, sdVars,
                   wire, histVars>>

\* ------------------------------------------------------------ the system
\* What the environment does: calls of the API and input on the stream.
Env ==
    \/ \E secs \in {SetSecs, LongSecs} : SetTimeout(secs)
    \/ \E s \in Starts : StartUp(s)
    \/ ShutdownFlag
    \/ \E c \in Calls : RequestCheck(c)
    \/ \E s \in Starts, m \in Chunks : ReaderChunk(s, m)
    \/ \E s \in Starts : ReaderEOF(s)

\* What the goroutines do once started.
Internal ==
    \/ \E s \in Starts : WriterRange(s)
    \/ \E s \in Starts, c \in Calls : WriterRecv(s, c)
    \/ \E s \in Starts, ok \in BOOLEAN : WriterWrite(s, ok)
    \/ \E s \in Starts : WriterExit(s)
    \/ \E t \in Tasks : TaskLookup(t)
    \/ \E t \in Tasks : TaskNilDeref(t)
    \/ \E t \in Tasks : TaskSend(t)
    \/ \E t \in Tasks : TaskDelete(t)
    \/ \E c \in Calls : RequestNextId(c)
    \/ \E c \in Calls : RequestRegister(c)
    \/ \E c \in Calls : RequestSend(c)
    \/ \E c \in Calls : RequestSendPanic(c)
    \/ \E c \in Calls, p \in Payloads : RequestReply(c, p)
    \/ \E c \in Calls : RequestTimerFire(c)
    \/ \E c \in Calls : RequestTimeout(c)
    \/ ShutdownCloseQueue
    \/ \E k \in 1..MaxCalls : ShutdownCloseReply(k)
    \/ ShutdownNewMap
    \/ ShutdownNewQueue
    \/ \E t \in Tasks : MapReadFault(t)
    \/ MapWriteFault
    \/ MapIterFault

Next == Env \/ Internal

Spec == Init /\ [][Next]_vars

\* ======================================================== the claims
OnWire == {wire[k] : k \in 1..Len(wire)} \ {Newline}
Pos(i) == CHOOSE k \in 1..Len(wire) : wire[k] = i
ShutdownCalled == sdCount >= 1 \/ sdPc # "idle"
\* A Shutdown call has returned and no StartUp call was made since it began.
ShutDownState == sdCount >= 1 /\ sdPc = "idle" /\ StartsMade = startsAtSd
Replied == {"ok", "rpcError", "decodeError"}
\* StartUp was called exactly once, and Shutdown, if called, after it.
PlainLifecycle == StartsMade = 1 /\ (ShutdownCalled => startsAtSd = 1)

\* C1: every Request that passed its shutdown check while the client was
\* Running returns, by a reply, a timeout or a shutdown release: no panic
\* ends the process under it, and once no goroutine can take a step any
\* more none of these calls is still inside Request.  (Stated for a client
\* started once and shut down at most once afterwards.)
C1_EveryCallReturns ==
    (PlainLifecycle /\ ~ENABLED Internal) =>
        \A c \in ranAt :
            pc[c] = "done" /\ outcome[c] \in Replied \cup {"timeout", "pipeClosed"}

\* C2: if A's enqueue completed before B's enqueue began, A's bytes and its
\* delimiter are on the stream before any byte of B (an envelope that failed
\* to encode has no bytes).
C2_WireOrder ==
    \A c \in Calls : \A a \in before[c] :
        id[c] \in OnWire =>
            /\ \A s \in Starts : wReq[s] # a
            /\ a \in OnWire => Pos(a) + 2 < Pos(id[c])

\* C3 (as stated): the reply a caller receives carries the caller's id, and a
\* reply carrying a result makes Request return without error.
C3_Original ==
    \A c \in Calls :
        /\ outcome[c] \in Replied => gotId[c] = id[c]
        /\ outcome[c] # "decodeError"

\* C3 (amended): the reply a caller receives carries the caller's id and was
\* put into the caller's own channel; Request then returns what handleReply
\* makes of it: nil, the protocol error, or the error of decoding the result.
C3_Pairing ==
    \A c \in Calls :
        /\ outcome[c] \in Replied => gotId[c] = id[c] /\ gotId[c] # 0
        /\ replyBuf[c] # << >> => Head(replyBuf[c]) = id[c]
        /\ outcome[c] \in {"none", "shutdown", "timeout", "pipeClosed"}
             => gotId[c] = 0

\* Two calls are outstanding and the later one is answered first.
C3_Witness ==
    \E c, d \in Calls :
        /\ outcome[c] = "ok" /\ gotId[c] = id[c]
        /\ pc[d] = "waiting" /\ id[d] # 0 /\ id[d] < id[c]
        /\ id[d] \in OnWire /\ id[c] \in OnWire

\* C4: once Shutdown has returned (client started once before it), no call
\* that passed its check while Running is still blocked waiting for a reply,
\* the registry has no entry of such a call and the queue that was current
\* has been closed.
C4_AfterShutdown ==
    (ShutDownState /\ PlainLifecycle) =>
        /\ \A c \in ranAt : pc[c] = "waiting" => ReplyReady(c)
        /\ \A i \in DOMAIN pendingReq : pendingReq[i] \notin ranAt
        /\ (requestQueue - 1) \in closedQ

C6_NotStartedFails ==
    StartsMade = 0 =>
        \A c \in Calls :
            pc[c] = "idle" \/ (pc[c] = "done" /\ outcome[c] = "shutdown")

\* C7: a call that waits and has no reply in its channel needs nothing but
\* time to take the timeout branch; it returns the timeout error only after
\* it has waited the configured timeout (in seconds), and its id then has
\* no registry entry.
C7_Timeout ==
    \A c \in Calls :
        /\ (pc[c] = "waiting" /\ ~ReplyReady(c) /\ ~Crashed)
              => ENABLED RequestTimerFire(c)
        /\ pc[c] = "timedout" => waited[c] >= timeout
        /\ outcome[c] = "timeout" =>
              /\ waited[c] >= timeout
              /\ id[c] \notin DOMAIN pendingReq

\* C8: resolving a reply whose id has no registry entry changes nothing but
\* the task itself, which ends: the registry, every reply channel and every
\* call are as before.
C8_StrayNoOp ==
    [][\A t \in Tasks :
         (tPc[t] = "parse" /\ tPc'[t] # "parse" /\ tMsg[t] \in 1..MaxCalls
            /\ tMsg[t] \notin DOMAIN pendingReq)
            => /\ tPc'[t] = "stray"
               /\ UNCHANGED <<pendingReq, chanVars, callVars, panic>>]_vars

\* C9: an id written to the wire does not stay in the registry: once every
\* goroutine has run as far as it can, no written id has an entry (reply,
\* timeout or the shutdown drain has removed it).
C9_NoLeakAtRest ==
    (PlainLifecycle /\ ~ENABLED Internal) =>
        \A i \in OnWire : i \notin DOMAIN pendingReq

LiveWriters == {s \in Starts : wPc[s] \in {"start", "recv", "write"}}
LiveReaders == {s \in Starts : stPc[s] = "reading"}

\* C11: whatever the number of StartUp calls (no Shutdown in between), at
\* most one Writer Loop and at most one Reader Loop exist.
C11_OneLoopEach ==
    ~ShutdownCalled =>
        /\ Cardinality(LiveWriters) <= 1
        /\ Cardinality(LiveReaders) <= 1

\* C12: every NextId call returns an identifier that is at least 1, is 1 for
\* the first call, and is greater than every identifier returned before it,
\* whatever the order in which concurrent callers reach it; the identifiers
\* of the other calls are left alone, so no two calls hold the same one.
C12_NextIdSafe ==
    [][\A c \in Calls :
         (pc[c] = "checked" /\ pc'[c] # "checked") =>
            /\ id'[c] >= 1
            /\ (\A d \in Calls : id[d] = 0) => id'[c] = 1
            /\ \A d \in Calls : id'[c] > id[d]
            /\ \A d \in Calls \ {c} : id'[d] = id[d] /\ id'[d] # id'[c]]_vars

\* Two callers were inside Request together and the one that entered later
\* took its identifier first.
C12_Witness ==
    \E c, d \in Calls : c < d /\ id[d] >= 1 /\ id[c] > id[d]

\* C13: a reply read as a protocol error is returned to the call whose id it
\* carries, and the steps that resolve a reply touch no other call: the
\* state, the outcome and the reply channel of every call with another id
\* are as before, and the process goes on.
C13_ErrorOnlyToOwner ==
    /\ [](\A c \in Calls : outcome[c] = "rpcError" => gotId[c] = id[c])
    /\ [][\A t \in Tasks :
            (tPc[t] \in {"parse", "send", "delete"}
               /\ tMsg[t] \in DOMAIN pendingReq /\ tPc'[t] # tPc[t])
            => /\ panic' = panic
               /\ \A d \in Calls :
                    id[d] # tMsg[t] =>
                       /\ pc'[d] = pc[d] /\ outcome'[d] = outcome[d]
                       /\ replyBuf'[d] = replyBuf[d]]_vars

\* The goroutines about to read the map: a task at its lookup, Shutdown in
\* its range.
MapReaders ==
    Cardinality({t \in Tasks :
                   /\ tPc[t] = "parse" /\ Parses(tMsg[t])
                   /\ ~IsNull(tMsg[t]) /\ HasId(tMsg[t])})
      + (IF sdPc = "range" THEN 1 ELSE 0)

\* C14: the accesses to the registry are serialized: never are two
\* goroutines free to write the map at the same time, nor one to write it
\* while another reads or ranges over it.
C14_RegistrySerialized ==
    /\ MapWriters <= 1
    /\ MapWriters = 1 => MapReaders = 0

\* C15: when a Reader Loop ends, on the end of the input or on finding the
\* shutdown flag set, every caller waiting for a reply at that moment is
\* released: its reply channel is closed.
C15_ReaderEndDrains ==
    [][\A s \in Starts :
         (PlainLifecycle /\ stPc[s] = "reading"
            /\ stPc'[s] \in {"eof", "stopped"})
            => \A c \in Calls : pc'[c] = "waiting" => c \in replyClosed']_vars

\* C16: once Shutdown has returned and every goroutine has run as far as it
\* can, with no further input arriving, no Reader Loop is still running.
C16_ReaderEnds ==
    (PlainLifecycle /\ ShutDownState /\ ~ENABLED Internal) => LiveReaders = {}

\* C17: once Shutdown has returned and every goroutine has run as far as it
\* can, every Writer Loop that was launched has ended and holds no envelope
\* it received and did not pass to the encoder and the stream.
C17_WriterDrainsAndEnds ==
    (PlainLifecycle /\ ShutDownState /\ ~Crashed /\ ~ENABLED Internal) =>
        \A s \in Starts :
            wPc[s] # "none" => (wPc[s] = "exited" /\ wReq[s] = 0)

\* C18: an envelope whose encoding failed has no byte on the stream; the
\* step that drops it leaves the registry, every call and every reply
\* channel as they were and takes the Writer Loop back to its receive; the
\* call keeps waiting with its timer running, and when it has returned the
\* timeout error its entry is gone.
C18_EncodeFailureDrops ==
    /\ [](\A i \in dropped : i \notin OnWire)
    /\ [](\A c \in Calls :
            id[c] \in dropped =>
               /\ (pc[c] = "waiting" /\ ~ReplyReady(c) /\ ~Crashed)
                     => ENABLED RequestTimerFire(c)
               /\ outcome[c] = "timeout" => id[c] \notin DOMAIN pendingReq)
    /\ [][\A s \in Starts :
            (wPc[s] = "write" /\ wPc'[s] # "write" /\ dropped' # dropped) =>
               /\ wPc'[s] = "recv"
               /\ UNCHANGED <<wire, pendingReq, callVars, chanVars, panic>>]_vars

\* An envelope was dropped, its call has returned the timeout error, and an
\* envelope enqueued later is on the stream.
C18_Witness ==
    \E c, d \in Calls :
        /\ id[c] \in dropped /\ pc[c] = "done" /\ outcome[c] = "timeout"
        /\ id[d] \in OnWire /\ id[c] \in before[d]

\* A chunk that is no reply to anyone: it fails to parse, or it parses to
\* nothing or to a reply whose id is missing or empty.
Invalid(m) == ~Parses(m) \/ IsNull(m) \/ ~HasId(m)

\* C19: the task of an invalid chunk ends without effect: the registry,
\* every call, every reply channel and the Reader Loops are as before, and
\* the process goes on.
C19_InvalidChunkDropped ==
    [][\A t \in Tasks :
         (tPc[t] = "parse" /\ tPc'[t] # "parse" /\ Invalid(tMsg[t]))
            => /\ tPc'[t] = "invalid"
               /\ UNCHANGED <<pendingReq, chanVars, callVars, stPc, panic>>]_vars

\* The timeout of call c and the resolution of a reply for c's id race: the
\* task is between its parse and its delete while the call waits or has
\* just taken the timeout branch.
Racing(c, t) ==
    /\ id[c] >= 1 /\ tMsg[t] = id[c]
    /\ pc[c] \in {"waiting", "timedout"}
    /\ tPc[t] \in {"parse", "send", "delete"}

\* C20: while one call and the one task that resolves its reply race (no
\* other call, no other chunk, no Shutdown), no step ends the process.
C20_TimeoutReplyRace ==
    [][\A c \in Calls, t \in Tasks :
         (/\ Racing(c, t)
          /\ ~ShutdownCalled /\ nTasks = 1
          /\ \A d \in Calls \ {c} : pc[d] = "idle")
            => panic' = panic]_vars

\* The tasks that have been launched and have not ended.
RunningTasks == {t \in Tasks : tPc[t] \in {"parse", "send", "delete"}}

\* C21: the Reader Loop is never held up by resolution.  While it runs it
\* can read the next chunk, whatever it is, however many of the tasks
\* launched earlier are still running or blocked; and every chunk it reads
\* and goes on with is handed to a task of its own, launched by that very
\* step, which leaves the position of every other task alone.
C21_ReaderNeverBlocked ==
    /\ [](\A s \in Starts :
            (stPc[s] = "reading" /\ ~Crashed /\ EnvUsed < MaxEnv
               /\ nTasks < MaxChunks)
            => \A m \in Chunks : ENABLED ReaderChunk(s, m))
    /\ [][(nTasks' = nTasks + 1 /\ stPc' = stPc)
            => /\ tPc[nTasks'] = "none" /\ tPc'[nTasks'] = "parse"
               /\ tBy'[nTasks'] \in LiveReaders
               /\ \A t \in Tasks \ {nTasks'} : tPc'[t] = tPc[t]]_vars

\* The Reader Loop read a chunk and launched its task while the task of the
\* chunk before had looked up its channel and not yet sent.
C21_Witness ==
    /\ nTasks = 2 /\ tBy[1] = tBy[2]
    /\ tPc[1] = "send" /\ tPc[2] \in {"parse", "send"}
    /\ stPc[tBy[2]] = "reading"

\* No Writer Loop is at its receive on the channel on which call c sends.
NotTaken(c) ==
    /\ pc[c] = "sending"
    /\ \A s \in Starts : ~(wPc[s] = "recv" /\ wCh[s] = sendCh[c])

\* C22: handing the envelope to the queue does not suspend the caller past
\* its timeout: a call whose envelope no Writer Loop is ready to take (the
\* loop is busy with another envelope, stalled on the stream, or gone) has
\* its timer running and needs nothing but time to return the timeout error.
\* (Stated for calls made on a client started once.)
C22_EnqueueTimesOut ==
    \A c \in ranAt :
        (PlainLifecycle /\ ~Crashed /\ NotTaken(c) /\ sendCh[c] \notin closedQ)
            => ENABLED RequestTimerFire(c)

\* The StartUp call s has returned: readQueue, which it runs itself, ended.
StartUpReturned(s) == stPc[s] \in {"eof", "stopped"}

\* C23: StartUp launches both loops and returns without waiting for the
\* Reader Loop: once every goroutine has run as far as it can, every StartUp
\* call that was made has returned, the input stream open or not.
C23_StartUpReturns ==
    (~Crashed /\ ~ENABLED Internal) =>
        \A s \in Starts : stPc[s] # "idle" => StartUpReturned(s)

\* C24: the registry holds at most one entry per identifier and registration
\* never replaces a live entry: the identifier a Request is about to
\* register is no key of the registry, its registration adds that key and
\* leaves every other entry as it was, and the entries of the registry
\* belong to distinct calls, each under its own identifier.
C24_RegistrationFresh ==
    /\ [](\A c \in Calls : pc[c] = "gotId" => id[c] \notin DOMAIN pendingReq)
    /\ [](\A i \in DOMAIN pendingReq :
            /\ id[pendingReq[i]] = i
            /\ \A j \in DOMAIN pendingReq : pendingReq[j] = pendingReq[i] => j = i)
    /\ [][\A c \in Calls :
            (pc[c] = "gotId" /\ pc'[c] = "registered") =>
               /\ id[c] \notin DOMAIN pendingReq
               /\ DOMAIN pendingReq' = (DOMAIN pendingReq) \cup {id[c]}
               /\ pendingReq'[id[c]] = c
               /\ \A i \in DOMAIN pendingReq : pendingReq'[i] = pendingReq[i]]_vars

\* A call registered while the entry of an earlier call was live.
C24_Witness ==
    /\ Cardinality(DOMAIN pendingReq) = 2
    /\ \A c \in Calls : pc[c] \in {"registered", "sending", "waiting"}

\* C25: the timeout a Request applies is the one configured on the client,
\* DefaultTimeout seconds if SetTimeout was never called and n seconds after
\* SetTimeout(n): a call that takes the timeout branch has waited exactly
\* the configured number of seconds.
C25_ConfiguredTimeout ==
    /\ timeout \in {DefaultTimeout, SetSecs, LongSecs}
    /\ \A c \in Calls :
          (pc[c] = "timedout" \/ outcome[c] = "timeout") => waited[c] = timeout

\* C26: a Shutdown that runs while a Request is past its shutdown check
\* never leaves that Request sending on a queue Shutdown has closed: no call
\* is blocked in its send on a closed queue and no send has panicked.
\* (Stated for a client started once.)
C26_NoSendOnClosedQueue ==
    PlainLifecycle =>
        /\ \A c \in ranAt : pc[c] = "sending" => sendCh[c] \notin closedQ
        /\ panic # "Request: send on closed channel"

\* C27: a Shutdown that runs while a reply is being resolved never leaves
\* sendResponse delivering to a reply channel the drain has closed: no task
\* holds a closed channel for its send and no such send has panicked.
\* (Stated for a client started once.)
C27_NoSendOnClosedSlot ==
    PlainLifecycle =>
        /\ \A t \in Tasks : tPc[t] = "send" => tCh[t] \notin replyClosed
        /\ panic # "sendResponse: send on closed channel"

\* C28: a reply channel is written once and delivery to it never blocks: a
\* task sends into a channel only if no reply was sent into it before (its
\* buffer is empty and its call has received none), and once every goroutine
\* has run as far as it can no task is left running.  (Stated for runs
\* without a Shutdown call and without a crash.)
C28_SlotWriteOnce ==
    /\ [][\A t \in Tasks :
            (~ShutdownCalled /\ tPc[t] = "send" /\ tPc'[t] = "delete")
            => /\ replyBuf[tCh[t]] = << >>
               /\ gotId[tCh[t]] = 0]_vars
    /\ []((~ShutdownCalled /\ ~Crashed /\ ~ENABLED Internal)
            => RunningTasks = {})

\* The ids handed to the queue: a send in progress, an envelope a Writer
\* Loop holds, an envelope on the stream.
Enqueued ==
    {id[c] : c \in {x \in Calls : pc[x] = "sending"}}
      \cup ({wReq[s] : s \in Starts} \ {0}) \cup OnWire

\* C29: registration comes before the envelope can reach the wire.  Every id
\* handed to the queue, held by a Writer Loop or written belongs to a call
\* that went through its registration; as long as neither a reply, nor the
\* timeout, nor a Shutdown has released that call its entry is in the
\* registry, so the lookup of a reply to it finds the channel and the reply
\* is not dropped as stray.
C29_RegisteredBeforeWire ==
    /\ [](\A i \in Enqueued :
            \E c \in Calls :
               id[c] = i /\ pc[c] \in {"sending", "waiting", "timedout", "done"})
    /\ [](\A c \in Calls :
            (~ShutdownCalled /\ pc[c] \in {"sending", "waiting"}
               /\ replyBuf[c] = << >>)
            => (Exists(id[c]) /\ Lookup(id[c]) = c))
    /\ [][\A c \in Calls :
            (pc'[c] = "sending" /\ pc[c] # "sending")
            => pc[c] = "registered"]_vars
    /\ [][\A t \in Tasks, c \in Calls :
            (/\ tPc[t] = "parse" /\ tPc'[t] = "stray" /\ tMsg[t] = id[c]
             /\ ~ShutdownCalled)
            => ~(pc[c] \in {"sending", "waiting"} /\ replyBuf[c] = << >>)]_vars

\* The envelope is on the stream, its call waits, and the task of the reply
\* has found the call's channel.
C29_Witness ==
    \E c \in Calls, t \in Tasks :
        /\ id[c] \in OnWire /\ pc[c] = "waiting"
        /\ tPc[t] = "send" /\ tCh[t] = c /\ tMsg[t] = id[c]

\* C30: once Shutdown has returned (client started once before it, not
\* started again) the registry is empty and stays so, and no call is left
\* sending on the queue Shutdown created.
C30_EmptyAfterShutdown ==
    (ShutDownState /\ PlainLifecycle) =>
        /\ DOMAIN pendingReq = {}
        /\ \A c \in Calls : ~(pc[c] = "sending" /\ sendCh[c] = requestQueue)

\* C31: the chunk handed to a task is the chunk as it was read: as long as
\* the task has not parsed them, its bytes are the same after every step of
\* the Reader Loop and of every other goroutine.
C31_ChunkAsRead ==
    [][\A t \in Tasks :
         (tPc[t] = "parse" /\ tPc'[t] = "parse") => tMsg'[t] = tMsg[t]]_vars

====
